---- MODULE Spec2Model ----
(***************************************************************************)
(* Model of VTT-to-SRT.py: the TIMESTAMP and SUBTITLE_LINE classes, the    *)
(* line loop of read_file, write_file, get_vtt_files and convert_files.    *)
(* Strings are sequences of one-character strings, so that splitting,      *)
(* replacing, matching, int() and number formatting are computed as the    *)
(* interpreter computes them.                                              *)
(***************************************************************************)
EXTENDS Integers, Sequences, FiniteSets, TLC

VARIABLES
    pc,                 \* position of the program
    \* ---- TIMESTAMP construction and formatting
    timestring,         \* argument of TIMESTAMP.__init__
    tuple,              \* the component tuple and form the argument renders
    ts,                 \* the constructed TIMESTAMP object
    formatted,          \* result of TIMESTAMP.__str__
    \* ---- read_file / write_file on one file
    consumed,           \* raw lines the for loop has taken from the file
    line_number,        \* read_file's local line_number
    subtitle_line,      \* read_file's local subtitle_line: 0 is None, else a heap reference
    subtitle_lines,     \* read_file's local list, a sequence of references
    heap,               \* the SUBTITLE_LINE objects created so far
    result,             \* what read_file returned
    written,            \* what write_file left at the output path
    \* ---- get_vtt_files / convert_files on a directory
    directory_contents, \* os.listdir of the input directory
    vtt_files,          \* list returned by get_vtt_files
    index,              \* position of the for loop of convert_files
    read_result,        \* read_file's return value for the current file
    outdir,             \* the output directory: name -> content
    journal             \* per loop iteration: what happened to that file

varsTime  == <<timestring, tuple, ts, formatted>>
varsRead  == <<consumed, line_number, subtitle_line, subtitle_lines, heap, result, written>>
varsBatch == <<directory_contents, vtt_files, index, read_result, outdir, journal>>
vars      == <<pc, varsTime, varsRead, varsBatch>>

-----------------------------------------------------------------------------
(* Bounds *)

MaxHour  == 3
MaxLines == 4
MaxFiles == 2

-----------------------------------------------------------------------------
(* Characters and strings *)

LF    == "\n"
Digit == <<"0", "1", "2", "3", "4", "5", "6", "7", "8", "9">>

IsDigit(c)  == \E i \in 1..10 : Digit[i] = c
DigitVal(c) == (CHOOSE i \in 1..10 : Digit[i] = c) - 1

Front(s) == IF Len(s) = 0 THEN s ELSE SubSeq(s, 1, Len(s) - 1)

StartsWith(s, p) == Len(s) >= Len(p) /\ SubSeq(s, 1, Len(p)) = p

\* str.find: the least position at which sep occurs in s, 0 when it does not
Find(s, sep) ==
    LET hits == {i \in 1..(Len(s) - Len(sep) + 1) : SubSeq(s, i, i + Len(sep) - 1) = sep}
    IN  IF hits = {} THEN 0 ELSE CHOOSE i \in hits : \A j \in hits : i <= j

\* str.split(sep)
RECURSIVE Split(_, _)
Split(s, sep) ==
    LET i == Find(s, sep)
    IN  IF i = 0 THEN <<s>>
        ELSE <<SubSeq(s, 1, i - 1)>> \o Split(SubSeq(s, i + Len(sep), Len(s)), sep)

\* str.replace(old, new): every non-overlapping occurrence, left to right
RECURSIVE Replace(_, _, _)
Replace(s, old, new) ==
    LET i == Find(s, old)
    IN  IF i = 0 THEN s
        ELSE SubSeq(s, 1, i - 1) \o new \o Replace(SubSeq(s, i + Len(old), Len(s)), old, new)

\* reversed(list)
Reversed(l) == [i \in 1..Len(l) |-> l[Len(l) + 1 - i]]

\* str.strip() as int() applies it
RECURSIVE LStrip(_)
LStrip(s) == IF Len(s) > 0 /\ s[1] \in {" ", LF} THEN LStrip(Tail(s)) ELSE s
RECURSIVE RStrip(_)
RStrip(s) == IF Len(s) > 0 /\ s[Len(s)] \in {" ", LF} THEN RStrip(Front(s)) ELSE s

RECURSIVE DigitsVal(_)
DigitsVal(s) == IF Len(s) = 0 THEN 0 ELSE 10 * DigitsVal(Front(s)) + DigitVal(s[Len(s)])

\* int(s): surrounding whitespace, an optional sign, then one or more digits
IntBody(s)   == IF Len(s) > 0 /\ s[1] \in {"-", "+"} THEN Tail(s) ELSE s
IntRaises(s) ==
    LET b == IntBody(RStrip(LStrip(s)))
    IN  Len(b) = 0 \/ \E i \in 1..Len(b) : ~IsDigit(b[i])
Int_(s) ==
    LET t == RStrip(LStrip(s))
    IN  IF Len(t) > 0 /\ t[1] = "-" THEN 0 - DigitsVal(IntBody(t)) ELSE DigitsVal(IntBody(t))

\* str(n) for n >= 0
RECURSIVE NatStr(_)
NatStr(n) == IF n < 10 THEN <<Digit[n + 1]>> ELSE NatStr(n \div 10) \o <<Digit[(n % 10) + 1]>>

RECURSIVE ZeroFill(_, _)
ZeroFill(s, w) == IF Len(s) >= w THEN s ELSE ZeroFill(<<"0">> \o s, w)

\* format(n, "0w"): sign-aware zero padding to width w, never truncating
Pad(n, w) == IF n < 0 THEN <<"-">> \o ZeroFill(NatStr(0 - n), w - 1) ELSE ZeroFill(NatStr(n), w)

\* str(n)
IntStr(n) == Pad(n, 1)

-----------------------------------------------------------------------------
(* class TIMESTAMP *)

_INDEX_MILLISECOND == 0
_INDEX_SECOND      == 1
_INDEX_MINUTE      == 2
_INDEX_HOUR        == 3

\* time_parts of __init__
TimeParts(s) == Reversed(Split(Replace(s, <<".">>, <<":">>), <<":">>))

\* the part stored at a 0-based index
PartAt(parts, i) == parts[i + 1]

\* __init__ raises ValueError when one of the parts it converts is not an integer
TIMESTAMP_raises(s) ==
    LET parts == TimeParts(s)
    IN  \E i \in {_INDEX_MILLISECOND, _INDEX_SECOND, _INDEX_MINUTE, _INDEX_HOUR} :
            Len(parts) > i /\ IntRaises(PartAt(parts, i))

FieldOf(parts, i) == IF Len(parts) > i THEN Int_(PartAt(parts, i)) ELSE 0

TIMESTAMP(s) ==
    LET parts == TimeParts(s)
    IN  [hour        |-> FieldOf(parts, _INDEX_HOUR),
         minute      |-> FieldOf(parts, _INDEX_MINUTE),
         second      |-> FieldOf(parts, _INDEX_SECOND),
         millisecond |-> FieldOf(parts, _INDEX_MILLISECOND)]

TIMESTAMP_str_period(t) ==
    Pad(t.hour, 2) \o <<":">> \o Pad(t.minute, 2) \o <<":">> \o Pad(t.second, 2)
        \o <<".">> \o Pad(t.millisecond, 3)

TIMESTAMP_str(t) ==
    Pad(t.hour, 2) \o <<":">> \o Pad(t.minute, 2) \o <<":">> \o Pad(t.second, 2)
        \o <<",">> \o Pad(t.millisecond, 3)

NoTimestamp == [hour |-> 0, minute |-> 0, second |-> 0, millisecond |-> 0]

-----------------------------------------------------------------------------
(* Specification SpecTime: construct a TIMESTAMP from a VTT time string    *)
(* and format it.                                                          *)

HourVals   == (0..MaxHour) \cup {10, 99, 100, 1234}
MinuteVals == {0, 1, 2, 9, 10, 59}
SecondVals == {0, 3, 9, 10, 59}
MsVals     == {0, 4, 9, 10, 99, 100, 999}
Forms      == {"long", "mmss", "ss"}

\* the VTT rendering of a tuple: the leading component has width lead (1 or 2
\* digits at least), the others two digits, the millisecond three
RenderVtt(t) ==
    CASE t.form = "long" ->
            Pad(t.h, t.lead) \o <<":">> \o Pad(t.m, 2) \o <<":">> \o Pad(t.s, 2)
                \o <<".">> \o Pad(t.ms, 3)
      [] t.form = "mmss" ->
            Pad(t.m, t.lead) \o <<":">> \o Pad(t.s, 2) \o <<".">> \o Pad(t.ms, 3)
      [] t.form = "ss" ->
            Pad(t.s, t.lead) \o <<".">> \o Pad(t.ms, 3)

Tuples ==
    {t \in [h : HourVals, m : MinuteVals, s : SecondVals, ms : MsVals,
            form : Forms, lead : {1, 2}] :
        /\ t.form = "mmss" => t.h = 0
        /\ t.form = "ss" => (t.h = 0 /\ t.m = 0)}

IdleTime ==
    /\ timestring = <<>>
    /\ tuple = [h |-> 0, m |-> 0, s |-> 0, ms |-> 0, form |-> "long", lead |-> 1]
    /\ ts = NoTimestamp
    /\ formatted = <<>>

IdleRead ==
    /\ consumed = <<>>
    /\ line_number = 0
    /\ subtitle_line = 0
    /\ subtitle_lines = <<>>
    /\ heap = <<>>
    /\ result = [kind |-> "unset"]
    /\ written = [kind |-> "absent"]

IdleBatch ==
    /\ directory_contents = <<>>
    /\ vtt_files = <<>>
    /\ index = 0
    /\ read_result = [kind |-> "unset"]
    /\ outdir = <<>>
    /\ journal = <<>>

InitTime ==
    /\ pc = "time_start"
    /\ tuple \in Tuples
    /\ timestring = RenderVtt(tuple)
    /\ ts = NoTimestamp
    /\ formatted = <<>>
    /\ IdleRead
    /\ IdleBatch

\* TIMESTAMP.__init__(timestring)
Construct ==
    /\ pc = "time_start"
    /\ IF TIMESTAMP_raises(timestring)
       THEN pc' = "time_error" /\ ts' = ts
       ELSE pc' = "time_built" /\ ts' = TIMESTAMP(timestring)
    /\ UNCHANGED <<timestring, tuple, formatted, varsRead, varsBatch>>

\* TIMESTAMP.__str__()
Str ==
    /\ pc = "time_built"
    /\ formatted' = TIMESTAMP_str(ts)
    /\ pc' = "time_formatted"
    /\ UNCHANGED <<timestring, tuple, ts, varsRead, varsBatch>>

NextTime == Construct \/ Str

SpecTime == InitTime /\ [][NextTime]_vars

\* C2: a TIMESTAMP built from the VTT rendering of (h, m, s, ms), long or
\* short form, formats as HH:MM:SS,mmm with the same component values, hour,
\* minute and second padded to two digits, millisecond to three, and every
\* omitted higher-order component printed as 0.
C2_RoundTrip ==
    /\ pc # "time_error"
    /\ pc = "time_formatted" =>
        formatted = Pad(tuple.h, 2) \o <<":">> \o Pad(tuple.m, 2) \o <<":">>
                        \o Pad(tuple.s, 2) \o <<",">> \o Pad(tuple.ms, 3)

\* the short form 02:03.004 has been formatted as 00:02:03,004
C2_Witness ==
    /\ pc = "time_formatted"
    /\ tuple.form = "mmss"
    /\ timestring = <<"0", "2", ":", "0", "3", ".", "0", "0", "4">>
    /\ formatted = <<"0", "0", ":", "0", "2", ":", "0", "3", ",", "0", "0", "4">>

-----------------------------------------------------------------------------
(* class SUBTITLE_LINE *)

Arrow == <<" ", "-", "-", ">", " ">>

\* a new SUBTITLE_LINE(): the class attributes, number included
SUBTITLE_LINE == [number |-> 0, time_start |-> NoTimestamp, time_end |-> NoTimestamp, text |-> <<>>]

\* set_timestamp raises when one of the two TIMESTAMP constructions does
set_timestamp_raises(timestampline) ==
    LET timestamps == Split(timestampline, Arrow)
    IN  TIMESTAMP_raises(timestamps[1]) \/ TIMESTAMP_raises(timestamps[2])

set_timestamp(obj, timestampline) ==
    LET timestamps == Split(timestampline, Arrow)
    IN  [obj EXCEPT !.time_start = TIMESTAMP(timestamps[1]),
                    !.time_end   = TIMESTAMP(timestamps[2])]

SUBTITLE_LINE_str(obj) ==
    IntStr(obj.number) \o <<LF>> \o TIMESTAMP_str(obj.time_start) \o Arrow
        \o TIMESTAMP_str(obj.time_end) \o <<LF>> \o obj.text

-----------------------------------------------------------------------------
(* read_file *)

IsTimeChar(c) == IsDigit(c) \/ c = ":" \/ c = "."

RECURSIVE SkipTimeChars(_)
SkipTimeChars(s) == IF Len(s) > 0 /\ IsTimeChar(s[1]) THEN SkipTimeChars(Tail(s)) ELSE s

\* re.match(SUBTITLE_TIMESTAMP_PATTERN, line): the pattern is anchored at the
\* start only; the first group is greedy over characters that exclude the
\* space, so the arrow has to follow the longest run of time characters
SUBTITLE_TIMESTAMP_PATTERN(line) == StartsWith(SkipTimeChars(line), Arrow)

\* the locals of read_file before the for loop
ReadStart ==
    [line_number |-> 0, subtitle_line |-> 0, subtitle_lines |-> <<>>, heap |-> <<>>,
     raised |-> FALSE]

\* branch 1 of the loop body: a timestamp line
OnTimestamp(st, line) ==
    IF set_timestamp_raises(line)
    THEN [st EXCEPT !.line_number = @ + 1, !.raised = TRUE]
    ELSE [st EXCEPT !.line_number = @ + 1,
                    !.heap = Append(@, set_timestamp(SUBTITLE_LINE, line)),
                    !.subtitle_line = Len(st.heap) + 1]

\* branch 2: a text line; None has no attribute text
OnText(st, line) ==
    IF st.subtitle_line = 0
    THEN [st EXCEPT !.raised = TRUE]
    ELSE [st EXCEPT !.heap[st.subtitle_line].text = @ \o line \o <<LF>>]

\* branch 3: a blank line appends whatever subtitle_line refers to
OnBlank(st) == [st EXCEPT !.subtitle_lines = Append(@, st.subtitle_line)]

\* one iteration of the for loop on the raw line the file yields
LoopBody(st, raw) ==
    LET line == Front(raw)
    IN  IF SUBTITLE_TIMESTAMP_PATTERN(line) THEN OnTimestamp(st, line)
        ELSE IF line # <<>> THEN OnText(st, line)
        ELSE OnBlank(st)

\* the whole for loop; an exception leaves it
RECURSIVE ForLoop(_, _)
ForLoop(st, raws) ==
    IF raws = <<>> \/ st.raised THEN st ELSE ForLoop(LoopBody(st, Head(raws)), Tail(raws))

None == [kind |-> "none"]

\* the value read_file returns from the state its loop ended in; the list
\* holds references, so it is returned together with the objects
Returned(st) ==
    IF st.raised THEN None ELSE [kind |-> "list", list |-> st.subtitle_lines, heap |-> st.heap]

\* read_file on a file: content.kind is "unreadable" when open or decoding
\* raises, else content.lines are the raw lines after the two skipped ones
read_file(content) ==
    IF content.kind = "unreadable" THEN None ELSE Returned(ForLoop(ReadStart, content.lines))

-----------------------------------------------------------------------------
(* write_file *)

Absent     == [kind |-> "absent"]
FileOf(d)  == [kind |-> "file", data |-> d]

\* f"{subtitle_line}\n" for one element of the list
Entry(res, i) ==
    IF res.list[i] = 0 THEN <<"N", "o", "n", "e", LF>>
    ELSE SUBTITLE_LINE_str(res.heap[res.list[i]]) \o <<LF>>

RECURSIVE Entries(_, _)
Entries(res, n) == IF n = 0 THEN <<>> ELSE Entries(res, n - 1) \o Entry(res, n)

\* what write_file leaves at filepath. how.kind: "ok", "open_error" (open
\* raises, nothing is touched) or "io_error" (a write raises after how.k
\* entries). Iterating None raises after open has truncated the file.
write_file(old, res, how) ==
    IF how.kind = "open_error" THEN old
    ELSE IF res.kind = "none" THEN FileOf(<<>>)
    ELSE IF how.kind = "io_error" THEN FileOf(Entries(res, how.k))
    ELSE FileOf(Entries(res, Len(res.list)))

Hows(res) ==
    {[kind |-> "ok", k |-> 0], [kind |-> "open_error", k |-> 0]}
        \cup (IF res.kind = "list"
              THEN {[kind |-> "io_error", k |-> k] : k \in 0..(Len(res.list) - 1)}
              ELSE {})

-----------------------------------------------------------------------------
(* Specification SpecRead: read_file on one file, line by line, then       *)
(* write_file on what it returned. The two header lines are skipped        *)
(* without being looked at, so the loop's input is what follows them.      *)

TsA   == <<"1", ".", "5">> \o Arrow \o <<"2", ".", "0", "4", LF>>
TsB   == <<"0", ":", "3", ".", "1">> \o Arrow \o <<"4", ".", "2", LF>>
TsCue == <<"1", ".", "5">> \o Arrow \o <<"2", ".", "0", " ", "x", LF>>
Hi    == <<"H", "i", LF>>
Ex    == <<"x", LF>>
Blank == <<LF>>

Terminated(raw) == raw # <<>> /\ raw[Len(raw)] = LF

\* the lines a file can yield: terminated ones, and the same without the
\* terminator, which only the last line of a file can be
TerminatedLines == {TsA, TsB, TsCue, Hi, Ex, Blank}
RawLines == TerminatedLines \cup {Front(l) : l \in TerminatedLines \ {Blank}}

OldData == <<"o", "l", "d", LF>>

InitRead ==
    /\ pc = "read_start"
    /\ IdleTime
    /\ consumed = <<>>
    /\ line_number = 0
    /\ subtitle_line = 0
    /\ subtitle_lines = <<>>
    /\ heap = <<>>
    /\ result = [kind |-> "unset"]
    /\ written \in {Absent, FileOf(OldData)}
    /\ IdleBatch

Locals == [line_number |-> line_number, subtitle_line |-> subtitle_line,
           subtitle_lines |-> subtitle_lines, heap |-> heap, raised |-> FALSE]

\* open the file and skip the header, or fail to
ReadOpen ==
    /\ pc = "read_start"
    /\ \E content \in {[kind |-> "unreadable"], [kind |-> "text"]} :
          IF content.kind = "unreadable"
          THEN result' = None /\ pc' = "read_returned"
          ELSE result' = result /\ pc' = "read_loop"
    /\ UNCHANGED <<varsTime, consumed, line_number, subtitle_line, subtitle_lines, heap,
                   written, varsBatch>>

CanYield(raw) ==
    /\ pc = "read_loop"
    /\ Len(consumed) < MaxLines
    /\ IF consumed = <<>> THEN TRUE ELSE Terminated(consumed[Len(consumed)])
    /\ raw \in RawLines

Iterate(raw) ==
    LET st == LoopBody(Locals, raw)
    IN  /\ consumed' = Append(consumed, raw)
        /\ line_number' = st.line_number
        /\ subtitle_line' = st.subtitle_line
        /\ subtitle_lines' = st.subtitle_lines
        /\ heap' = st.heap
        /\ IF st.raised
           THEN result' = None /\ pc' = "read_returned"
           ELSE result' = result /\ pc' = "read_loop"
        /\ UNCHANGED <<varsTime, written, varsBatch>>

TimestampLine ==
    \E raw \in RawLines :
        /\ CanYield(raw)
        /\ SUBTITLE_TIMESTAMP_PATTERN(Front(raw))
        /\ Iterate(raw)

TextLine ==
    \E raw \in RawLines :
        /\ CanYield(raw)
        /\ ~SUBTITLE_TIMESTAMP_PATTERN(Front(raw))
        /\ Front(raw) # <<>>
        /\ Iterate(raw)

BlankLine ==
    \E raw \in RawLines :
        /\ CanYield(raw)
        /\ ~SUBTITLE_TIMESTAMP_PATTERN(Front(raw))
        /\ Front(raw) = <<>>
        /\ Iterate(raw)

\* end of input: return subtitle_lines
ReadReturn ==
    /\ pc = "read_loop"
    /\ result' = Returned(Locals)
    /\ pc' = "read_returned"
    /\ UNCHANGED <<varsTime, consumed, line_number, subtitle_line, subtitle_lines, heap,
                   written, varsBatch>>

\* write_file(filepath, read_file(...))
WriteOut ==
    /\ pc = "read_returned"
    /\ \E how \in Hows(result) :
          /\ written' = write_file(written, result, how)
          /\ pc' = IF how.kind = "ok" /\ result.kind = "list" THEN "write_ok"
                   ELSE "write_failed"
    /\ UNCHANGED <<varsTime, consumed, line_number, subtitle_line, subtitle_lines, heap,
                   result, varsBatch>>

NextRead == ReadOpen \/ TimestampLine \/ TextLine \/ BlankLine \/ ReadReturn \/ WriteOut

SpecRead == InitRead /\ [][NextRead]_vars

(* Reading the input as the file states it, not as the loop sees it *)

Content(raw) == IF Terminated(raw) THEN Front(raw) ELSE raw

IsTime(s) ==
    /\ s # <<>>
    /\ \A i \in 1..Len(s) : IsTimeChar(s[i])
    /\ Len(TimeParts(s)) <= 4
    /\ ~TIMESTAMP_raises(s)

IsTsLine(raw) ==
    LET p == Split(Content(raw), Arrow)
    IN  Len(p) = 2 /\ IsTime(p[1]) /\ IsTime(p[2])

IsBlankLine(raw) == Content(raw) = <<>>

IsTextLine(raw) == ~IsBlankLine(raw) /\ ~SUBTITLE_TIMESTAMP_PATTERN(Content(raw))

\* blocks of one timestamp line, one or more text lines and one blank line
RECURSIVE WellFormedFrom(_, _)
WellFormedFrom(ls, state) ==
    IF ls = <<>> THEN state = "idle"
    ELSE /\ Terminated(Head(ls))
         /\ CASE state = "idle" -> IsTsLine(Head(ls)) /\ WellFormedFrom(Tail(ls), "ts")
              [] state = "ts"   -> IsTextLine(Head(ls)) /\ WellFormedFrom(Tail(ls), "text")
              [] state = "text" ->
                    \/ IsTextLine(Head(ls)) /\ WellFormedFrom(Tail(ls), "text")
                    \/ IsBlankLine(Head(ls)) /\ WellFormedFrom(Tail(ls), "idle")

WellFormed(ls) == WellFormedFrom(ls, "idle")

NBlocks(ls) == Cardinality({i \in 1..Len(ls) : IsBlankLine(ls[i])})

\* the cues of an SRT text: the pieces that end in an empty line
OutputCues(data) == Front(Split(data, <<LF, LF>>))
IndexLine(cue)   == Split(cue, <<LF>>)[1]

Range(f) == {f[i] : i \in DOMAIN f}

\* C1: for a well-formed input of N blocks, the written output has exactly N
\* cues and the index line of the k-th cue is the decimal number k.
C1_IndexDensity ==
    (pc = "write_ok" /\ WellFormed(consumed)) =>
        LET cues == OutputCues(written.data)
        IN  /\ Len(cues) = NBlocks(consumed)
            /\ \A k \in 1..Len(cues) : IndexLine(cues[k]) = IntStr(k)

\* C8: a blank line met while no record is active (no timestamp line seen
\* yet) appends nothing to the output sequence and causes no failure.
C8_BlankWithoutRecord ==
    [][(pc = "read_loop" /\ line_number = 0 /\ subtitle_line = 0
            /\ consumed' = Append(consumed, Blank))
          => (subtitle_lines' = subtitle_lines /\ pc' = "read_loop")]_vars

\* the input ends with the final cue open: a timestamp line after which no
\* blank line follows
OpenAtEnd(ls) ==
    \E i \in 1..Len(ls) :
        /\ IsTsLine(ls[i])
        /\ \A j \in (i + 1)..Len(ls) : ~IsBlankLine(ls[j])

\* C9: when the input ends while the final cue is open, the record of that
\* cue is not in the sequence read_file returns.
C9_OpenCueDropped ==
    (pc = "read_returned" /\ result.kind = "list" /\ OpenAtEnd(consumed)) =>
        Len(result.heap) \notin Range(result.list)

\* C10: a record that has been appended to the output sequence never
\* changes afterwards; text is only appended to a record not yet closed.
C10_AppendedImmutable ==
    [][\A i \in 1..Len(subtitle_lines) :
          subtitle_lines[i] # 0 => heap'[subtitle_lines[i]] = heap[subtitle_lines[i]]]_vars

-----------------------------------------------------------------------------
(* get_vtt_files and convert_files *)

DotVtt == <<".", "v", "t", "t">>
Vtt    == <<"v", "t", "t">>
Srt    == <<"s", "r", "t">>

\* the part of a string that "." can match: up to the first newline
FirstLine(s) == IF Find(s, <<LF>>) = 0 THEN s ELSE SubSeq(s, 1, Find(s, <<LF>>) - 1)

\* re.match(FILE_SEARCH_PATTER, item): anchored at the start only, so the
\* match succeeds as soon as ".vtt" occurs somewhere in the first line
FILE_SEARCH_PATTER(item) == Find(FirstLine(item), DotVtt) # 0

get_vtt_files(contents) == SelectSeq(contents, FILE_SEARCH_PATTER)

\* str.replace with a count of one
ReplaceFirst(s, old, new) ==
    LET i == Find(s, old)
    IN  IF i = 0 THEN s ELSE SubSeq(s, 1, i - 1) \o new \o SubSeq(s, i + Len(old), Len(s))

OutputName_first(vtt_file) == ReplaceFirst(vtt_file, Vtt, Srt)

\* the file name part of output_path
OutputName(vtt_file) == Replace(vtt_file, Vtt, Srt)

-----------------------------------------------------------------------------
(* Specification SpecBatch: main calls get_vtt_files on the input          *)
(* directory and convert_files on its result.                              *)

Names ==
    { <<"a", ".", "v", "t", "t">>,
      <<"b", ".", "s", "r", "t">>,
      <<"c", ".", "V", "T", "T">>,
      <<"a", ".", "v", "t", "t", "x">>,
      <<"v", "t", "t", ".", "v", "t", "t">>,
      <<"s", "r", "t", ".", "v", "t", "t">> }

\* a directory listing: distinct names
Listings ==
    UNION {{l \in [1..n -> Names] : \A i, j \in 1..n : i # j => l[i] # l[j]} : n \in 0..MaxFiles}

FileContents ==
    { [kind |-> "unreadable"],
      [kind |-> "text", lines |-> <<TsCue, Hi, Blank>>],
      [kind |-> "text", lines |-> <<TsA, Hi, Blank>>],
      [kind |-> "text", lines |-> <<TsB, Hi, Ex, Blank>>] }

OutNames == {OutputName(n) : n \in Names}

InitBatch ==
    /\ pc = "main"
    /\ IdleTime
    /\ IdleRead
    /\ directory_contents \in Listings
    /\ vtt_files = <<>>
    /\ index = 0
    /\ read_result = [kind |-> "unset"]
    /\ outdir \in {[n \in OutNames |-> Absent], [n \in OutNames |-> FileOf(OldData)]}
    /\ journal = <<>>

\* main: get_vtt_files(input_directory_path), then enter convert_files
GetVttFiles ==
    /\ pc = "main"
    /\ vtt_files' = get_vtt_files(directory_contents)
    /\ index' = 1
    /\ pc' = "convert"
    /\ UNCHANGED <<varsTime, varsRead, directory_contents, read_result, outdir, journal>>

\* loop body, first half: read_file(input_path)
ConvertRead ==
    /\ pc = "convert"
    /\ index <= Len(vtt_files)
    /\ \E content \in FileContents : read_result' = read_file(content)
    /\ pc' = "write"
    /\ UNCHANGED <<varsTime, varsRead, directory_contents, vtt_files, index, outdir, journal>>

\* loop body, second half: write_file(output_path, ...), then the next file
ConvertWrite ==
    /\ pc = "write"
    /\ LET out == OutputName(vtt_files[index])
       IN  \E how \in Hows(read_result) :
              /\ outdir' = [outdir EXCEPT ![out] = write_file(@, read_result, how)]
              /\ journal' = Append(journal,
                                [file |-> vtt_files[index], out |-> out,
                                 ok |-> (read_result.kind = "list" /\ how.kind = "ok")])
    /\ read_result' = [kind |-> "unset"]
    /\ index' = index + 1
    /\ pc' = "convert"
    /\ UNCHANGED <<varsTime, varsRead, directory_contents, vtt_files>>

\* the loop ends; main prints its closing message
ConvertDone ==
    /\ pc = "convert"
    /\ index > Len(vtt_files)
    /\ pc' = "done"
    /\ UNCHANGED <<varsTime, varsRead, varsBatch>>

NextBatch == GetVttFiles \/ ConvertRead \/ ConvertWrite \/ ConvertDone

SpecBatch == InitBatch /\ [][NextBatch]_vars

\* C3: whatever reads and writes fail, the loop processes every file of the
\* list in order, a file whose read and write succeed gets its complete
\* output written, and a failure on one file does not change the output of
\* another file.
C3_FailureIsolation ==
    /\ [](pc = "done" =>
            /\ Len(journal) = Len(vtt_files)
            /\ \A i \in 1..Len(journal) : journal[i].file = vtt_files[i])
    /\ [][pc = "write" =>
            LET e == journal'[Len(journal')]
            IN  /\ e.ok => outdir'[e.out] =
                             FileOf(Entries(read_result, Len(read_result.list)))
                /\ ~e.ok => \A i \in 1..Len(journal) :
                               journal[i].ok =>
                                   outdir'[journal[i].out] = outdir[journal[i].out]]_vars

\* C4: when read_file returned no record sequence, nothing is written: the
\* output path is neither created nor truncated.
C4_NoOutputOnReadFailure ==
    [][(pc = "write" /\ read_result.kind = "none") => outdir' = outdir]_vars

\* C5 as stated: the output name is the input name with only the first
\* occurrence of vtt replaced by srt.
C5_FirstOccurrenceOnly ==
    \A i \in 1..Len(journal) : journal[i].out = ReplaceFirst(journal[i].file, Vtt, Srt)

\* position p of name lies at offset k of an occurrence of vtt
InVtt(name, p, k) ==
    /\ p - k >= 1
    /\ p - k + 2 <= Len(name)
    /\ SubSeq(name, p - k, p - k + 2) = Vtt

\* C5 amended: the output name is the input name with every occurrence of
\* vtt replaced by srt and every other character kept in place.
C5_EveryOccurrence ==
    \A i \in 1..Len(journal) :
        LET name == journal[i].file
            out  == journal[i].out
        IN  /\ Len(out) = Len(name)
            /\ \A p \in 1..Len(name) :
                  out[p] = IF InVtt(name, p, 0) THEN "s"
                           ELSE IF InVtt(name, p, 1) THEN "r"
                           ELSE IF InVtt(name, p, 2) THEN "t"
                           ELSE name[p]

\* vtt.vtt has been converted and its output was named srt.srt
C5_Witness ==
    \E i \in 1..Len(journal) :
        /\ journal[i].file = <<"v", "t", "t", ".", "v", "t", "t">>
        /\ journal[i].out = <<"s", "r", "t", ".", "s", "r", "t">>
        /\ journal[i].ok

EndsWith(s, suffix) ==
    Len(s) >= Len(suffix) /\ SubSeq(s, Len(s) - Len(suffix) + 1, Len(s)) = suffix

HasVttSuffix(item) == EndsWith(item, DotVtt)

\* C6: get_vtt_files returns, in listing order, exactly the entries whose
\* name ends with .vtt.
C6_SuffixFilter ==
    pc # "main" => vtt_files = SelectSeq(directory_contents, HasVttSuffix)

\* C7: two distinct input files never share an output path, so no converted
\* output is overwritten by the output of another input file.
C7_DistinctOutputs ==
    \A i, j \in 1..Len(journal) : i # j => journal[i].out # journal[j].out

====
